---- MODULE Spec2Model ----
(***************************************************************************)
(* Model of the kyotei-ai v5 frontend: the App race picker (App.jsx), the  *)
(* RaceAnalysis screen (pages/RaceAnalysis.jsx) and the analyze request of *)
(* the API client (api/client.js); and of the service worker of the PWA    *)
(* (kyoutei-ai-app/docs/sw.js), an independent program.                    *)
(*                                                                         *)
(* JavaScript values are encoded so that TLC never compares values of      *)
(* different kinds: an optional value is a sequence of length 0 or 1       *)
(* (<<>> is undefined/absent, <<v>> is the value v), and a response body   *)
(* is a record with a kind field ("null" or "object").                     *)
(***************************************************************************)
EXTENDS Integers, Sequences, FiniteSets, TLC

VARIABLES
    venue,         \* App: useState('大村'), as an index into VENUES
    raceNumber,    \* App: useState(12)
    analyzing,     \* App: useState(false)
    ra,            \* the mounted RaceAnalysis instance (<<>> when not mounted)
    effectPending, \* the useEffect of RaceAnalysis is scheduled and has not run
    session,       \* number of analysis sessions started so far
    inflight,      \* analyze requests awaiting their response
    nreq,          \* per session, the number of POST /api/v5/analyze sent
    crashed,       \* a render threw: React has unmounted the whole tree
    swState,       \* sw.js: "parsed", "active" (installed) or "redundant"
    cache,         \* sw.js: the URLs held in the cache CACHE_NAME
    fetchLog       \* sw.js: what each fetch event was answered with

appvars == <<venue, raceNumber, analyzing, ra, effectPending, session, inflight,
             nreq, crashed>>

swvars == <<swState, cache, fetchLog>>

vars == <<appvars, swvars>>

----------------------------------------------------------------------------
(* Bounds and program constants *)

MaxSessions == 2
MaxList == 4
MaxFetches == 2

NumVenues == 24
NumRaces == 12
DefaultVenue == 24
DefaultRace == 12

VENUES == 1..NumVenues
RaceNumbers == 1..NumRaces

\* the options a run of the model picks in the two <select> elements
PickVenues == {1, DefaultVenue}
PickRaces == {1, DefaultRace}

----------------------------------------------------------------------------
(* Optional values *)

Absent == <<>>
Some(v) == <<v>>
Has(o) == o # <<>>
Get(o) == o[1]
Opt(S) == {Absent} \cup {Some(v) : v \in S}

----------------------------------------------------------------------------
(* AnalysisResponse bodies the server may send *)

Ticket(c, t) == [combination |-> c, type |-> t]
T1 == Ticket("1-2-3", "3rentan")
T2 == Ticket("1-3", "2rentan")
Pred(b, c) == [boats |-> b, confidence |-> c]
P1 == Pred(<<1, 2, 3>>, 40)
P2 == Pred(<<1, 3, 2>>, 25)
P3 == Pred(<<2, 1, 3>>, 15)
P4 == Pred(<<3, 1, 2>>, 10)

ShouldSkipValues == Opt(BOOLEAN)
StatusValues == Opt({"skip", "data_insufficient", "ok"})
SkipReasonsValues == Opt({<<"not enough starters">>})
MessageValues == Opt({"too few races"})
QualityScoreValues == Opt({30})
\* "constructor" and "__proto__" are strings too: names every object inherits
CategoryValues ==
    Opt({"stable", "mixed", "upset", "unknown", "constructor", "__proto__"})
TicketLists == {<<T1, T2, T1>>}
RecommendationsValues == Opt([tickets : Opt(TicketLists)])
HonmeiLists == {<<P1, P2, P3, P4>>}
ChuuaneLists == {<<P2>>}
PredictionsValues == Opt([honmei : Opt(HonmeiLists), chuuane : Opt(ChuuaneLists)])
DataQualityValues ==
    Opt({[checks |-> Absent, score |-> Absent],
         [checks |-> Some(<<"racer data ok">>), score |-> Some(90)]})

\* response.data === null (a JSON null body); also the initial useState(null)
NullBody ==
    [kind |-> "null", should_skip |-> Absent, status |-> Absent,
     skip_reasons |-> Absent, message |-> Absent, quality_score |-> Absent,
     category |-> Absent, recommendations |-> Absent, predictions |-> Absent,
     data_quality |-> Absent]

ObjectBodies ==
    [kind : {"object"}, should_skip : ShouldSkipValues, status : StatusValues,
     skip_reasons : SkipReasonsValues, message : MessageValues,
     quality_score : QualityScoreValues, category : CategoryValues,
     recommendations : RecommendationsValues, predictions : PredictionsValues,
     data_quality : DataQualityValues]

Responses == {NullBody} \cup ObjectBodies

\* err.message of the error the request rejects with
ErrorMessages ==
    Opt({"", "Network Error", "timeout of 60000ms exceeded",
         "Request failed with status code 500"})

----------------------------------------------------------------------------
(* RaceAnalysis: component state and render *)

\* the Japanese fallback text of the catch block, in English
FallbackMessage == "analysis failed (fallback text)"

\* mutant: useState(false) for loading
InitialStateNotLoading(i) ==
    [inst |-> i, loading |-> FALSE, result |-> NullBody, error |-> Absent,
     resultOf |-> 0, errorOf |-> 0]

\* useState(true), useState(null), useState(null) of a newly mounted instance.
\* inst identifies the instance; resultOf / errorOf record the session whose
\* request produced the held result / error (0: none).
InitialState(i) ==
    [inst |-> i, loading |-> TRUE, result |-> NullBody, error |-> Absent,
     resultOf |-> 0, errorOf |-> 0]

\* JavaScript truthiness of a string-or-null
Truthy(o) == Has(o) /\ Get(o) # ""

\* mutant: err.message ?? '...' (an empty message is kept)
OrFallbackNullish(m) == IF Has(m) THEN Get(m) ELSE FallbackMessage

\* err.message || '...'
OrFallback(m) == IF Truthy(m) THEN Get(m) ELSE FallbackMessage

\* mutant: 'should_skip' in result, whatever its value
IsSkipWhenPresent(r) == Has(r.should_skip) \/ r.status = Some("skip")

\* result?.should_skip || result?.status === 'skip'
IsSkip(r) ==
    \/ (Has(r.should_skip) /\ Get(r.should_skip))
    \/ r.status = Some("skip")

\* result?.status === 'data_insufficient'
IsDataInsufficient(r) == r.status = Some("data_insufficient")

\* mutant: the list is rendered from its last element to its first
MapReversed(o) ==
    IF Has(o)
    THEN [i \in 1..Len(Get(o)) |-> Get(o)[Len(Get(o)) + 1 - i]]
    ELSE <<>>

\* xs?.map(...) : nothing is rendered for an absent list
MapOrNothing(o) == IF Has(o) THEN Get(o) ELSE <<>>

\* mutant: slice(0, 2)
Slice2OrNothing(o) ==
    IF Has(o)
    THEN SubSeq(Get(o), 1, IF Len(Get(o)) < 2 THEN Len(Get(o)) ELSE 2)
    ELSE <<>>

\* xs?.slice(0, 3).map(...)
Slice3OrNothing(o) ==
    IF Has(o)
    THEN SubSeq(Get(o), 1, IF Len(Get(o)) < 3 THEN Len(Get(o)) ELSE 3)
    ELSE <<>>

\* (x * 100).toFixed(0) for x a ratio kept in hundredths; undefined gives "NaN"
PercentText(o) ==
    IF Has(o) THEN [nan |-> FALSE, pct |-> Get(o)] ELSE [nan |-> TRUE, pct |-> 0]

NoText == [nan |-> FALSE, pct |-> 0]

BlankView ==
    [view |-> "Blank", back |-> FALSE, text |-> Absent, reasons |-> <<>>,
     score |-> NoText, icon |-> Absent, style |-> Absent, tickets |-> <<>>,
     honmei |-> <<>>, chuuane |-> <<>>, checks |-> <<>>]

\* mutant: the loading view carries the back button of the other views
LoadingViewWithBack == [BlankView EXCEPT !.view = "Loading", !.back = TRUE]

LoadingView == [BlankView EXCEPT !.view = "Loading"]

FailedView(s) ==
    [BlankView EXCEPT !.view = "Failed", !.back = TRUE, !.text = s.error]

SkipView(r) ==
    [BlankView EXCEPT !.view = "SkipRecommended", !.back = TRUE,
                      !.reasons = MapOrNothing(r.skip_reasons)]

DataInsufficientView(r) ==
    [BlankView EXCEPT !.view = "DataInsufficient", !.back = TRUE,
                      !.text = r.message,
                      !.score = PercentText(r.quality_score)]

\* const categoryColors = {...} and const categoryIcons = {...}
categoryColors ==
    [stable |-> "bg-green-100 text-green-800",
     mixed |-> "bg-yellow-100 text-yellow-800",
     upset |-> "bg-red-100 text-red-800"]

categoryIcons ==
    [stable |-> "green circle", mixed |-> "yellow circle", upset |-> "red circle"]

\* table[result.category] on an object literal: an own key gives its string;
\* otherwise the property is looked up on Object.prototype, where "__proto__"
\* is Object.prototype itself (an object) and "constructor" is a function;
\* any other name, and undefined, give undefined
CategoryLookup(table, c) ==
    IF Has(c) /\ Get(c) \in DOMAIN table
    THEN [kind |-> "string", val |-> table[Get(c)]]
    ELSE IF c = Some("__proto__") THEN [kind |-> "object", val |-> ""]
    ELSE IF c = Some("constructor") THEN [kind |-> "function", val |-> ""]
    ELSE [kind |-> "undefined", val |-> ""]

\* {x} as a React child: a string is shown, undefined and a function show
\* nothing, an object makes the render throw
ChildText(x) == IF x.kind = "string" THEN Some(x.val) ELSE Absent

\* `... ${x}` in className: only an own key's string names a style
ClassStyle(x) == IF x.kind = "string" THEN Some(x.val) ELSE Absent

\* what throws in the full-analysis view: result.category (and every later
\* result.x) when result is null, and an object rendered as a child
FullViewThrows(r) ==
    \/ r.kind = "null"
    \/ CategoryLookup(categoryIcons, r.category).kind = "object"

FullView(r) ==
    IF FullViewThrows(r)
    THEN [BlankView EXCEPT !.view = "RenderError"]
    ELSE [BlankView EXCEPT
            !.view = "FullAnalysis", !.back = TRUE,
            !.style = ClassStyle(CategoryLookup(categoryColors, r.category)),
            !.icon = ChildText(CategoryLookup(categoryIcons, r.category)),
            !.tickets = IF Has(r.recommendations)
                        THEN MapOrNothing(Get(r.recommendations).tickets)
                        ELSE <<>>,
            !.honmei = IF Has(r.predictions)
                       THEN Slice3OrNothing(Get(r.predictions).honmei)
                       ELSE <<>>,
            !.chuuane = IF Has(r.predictions)
                        THEN Slice3OrNothing(Get(r.predictions).chuuane)
                        ELSE <<>>,
            !.checks = IF Has(r.data_quality)
                       THEN MapOrNothing(Get(r.data_quality).checks)
                       ELSE <<>>,
            !.score = IF Has(r.data_quality)
                      THEN PercentText(Get(r.data_quality).score)
                      ELSE PercentText(Absent)]

\* mutant: the data_insufficient branch placed before the skip branch
RaceAnalysisDataInsufficientFirst(s) ==
    IF s.loading THEN LoadingView
    ELSE IF Truthy(s.error) THEN FailedView(s)
    ELSE IF IsDataInsufficient(s.result) THEN DataInsufficientView(s.result)
    ELSE IF IsSkip(s.result) THEN SkipView(s.result)
    ELSE FullView(s.result)

\* the body of function RaceAnalysis after the hooks: the order of its returns
RaceAnalysis(s) ==
    IF s.loading THEN LoadingView
    ELSE IF Truthy(s.error) THEN FailedView(s)
    ELSE IF IsSkip(s.result) THEN SkipView(s.result)
    ELSE IF IsDataInsufficient(s.result) THEN DataInsufficientView(s.result)
    ELSE FullView(s.result)

PickerView == [BlankView EXCEPT !.view = "Picker"]

\* function App: RaceAnalysis while analyzing, the race picker otherwise;
\* nothing once a render error has unmounted the tree
App ==
    IF crashed THEN BlankView
    ELSE IF analyzing THEN RaceAnalysis(Get(ra))
    ELSE PickerView

View == App.view

\* rendering RaceAnalysis in state s throws
Throws(s) == RaceAnalysis(s).view = "RenderError"

----------------------------------------------------------------------------
(* Operations *)

Init ==
    /\ venue = DefaultVenue
    /\ raceNumber = DefaultRace
    /\ analyzing = FALSE
    /\ ra = Absent
    /\ effectPending = FALSE
    /\ session = 0
    /\ inflight = {}
    /\ nreq = [s \in {} |-> 0]
    /\ crashed = FALSE
    /\ swState = "parsed"
    /\ cache = {}
    /\ fetchLog = <<>>

\* the picker is on screen: its <select> elements and its button exist
PickerShown == ~crashed /\ ~analyzing

\* <select onChange={(e) => setVenue(e.target.value)}>
SetVenue(v) ==
    /\ PickerShown
    /\ venue' = v
    /\ UNCHANGED <<raceNumber, analyzing, ra, effectPending, session, inflight,
                   nreq, crashed>>

\* <select onChange={(e) => setRaceNumber(Number(e.target.value))}>
SetRaceNumber(n) ==
    /\ PickerShown
    /\ raceNumber' = n
    /\ UNCHANGED <<venue, analyzing, ra, effectPending, session, inflight,
                   nreq, crashed>>

\* handleAnalyze: setAnalyzing(true); App then renders <RaceAnalysis>, which
\* mounts a new instance with its initial state and schedules its effect
HandleAnalyze ==
    /\ PickerShown
    /\ session < MaxSessions
    /\ analyzing' = TRUE
    /\ session' = session + 1
    /\ ra' = Some(InitialState(session + 1))
    /\ effectPending' = TRUE
    /\ nreq' = [s \in 1..(session + 1) |-> IF s = session + 1 THEN 0 ELSE nreq[s]]
    /\ crashed' = Throws(InitialState(session + 1))
    /\ UNCHANGED <<venue, raceNumber, inflight>>

\* mutant: the two arguments in the wrong order
AnalyzeRaceSwapped(s, v, n) ==
    [session |-> s, inst |-> Get(ra).inst, venue |-> n, race_number |-> v]

\* analyzeRace(venue, raceNumber): apiClient.post('/api/v5/analyze', {...})
AnalyzeRace(s, v, n) ==
    [session |-> s, inst |-> Get(ra).inst, venue |-> v, race_number |-> n]

\* the effect runs analyze() up to its await: setLoading(true); setError(null);
\* analyzeRace(venue, raceNumber)
Analyze ==
    /\ ~crashed /\ analyzing /\ effectPending
    /\ LET s == [Get(ra) EXCEPT !.loading = TRUE, !.error = Absent, !.errorOf = 0]
       IN  /\ ra' = Some(s)
           /\ crashed' = Throws(s)
    /\ inflight' = inflight \cup {AnalyzeRace(session, venue, raceNumber)}
    /\ nreq' = [nreq EXCEPT ![session] = @ + 1]
    /\ effectPending' = FALSE
    /\ UNCHANGED <<venue, raceNumber, analyzing, session>>

\* the setters of an instance act only while that instance is mounted
Live(r) == ~crashed /\ analyzing /\ Get(ra).inst = r.inst

\* the request resolved: setResult(data); finally setLoading(false)
AnalyzeResolved(r, data) ==
    /\ r \in inflight
    /\ inflight' = inflight \ {r}
    /\ IF Live(r)
       THEN LET s == [Get(ra) EXCEPT !.result = data, !.resultOf = r.session,
                                     !.loading = FALSE]
            IN  /\ ra' = Some(s)
                /\ crashed' = Throws(s)
       ELSE UNCHANGED <<ra, crashed>>
    /\ UNCHANGED <<venue, raceNumber, analyzing, effectPending, session, nreq>>

\* mutant: the catch block sends the request once more
AnalyzeRejectedRetry(r, m) ==
    /\ r \in inflight
    /\ nreq[r.session] < 2
    /\ nreq' = [nreq EXCEPT ![r.session] = @ + 1]
    /\ UNCHANGED <<venue, raceNumber, analyzing, ra, effectPending, session,
                   inflight, crashed>>

\* mutant: no finally block, loading stays true after a failure
AnalyzeRejectedKeepsLoading(r, m) ==
    /\ r \in inflight
    /\ inflight' = inflight \ {r}
    /\ IF Live(r)
       THEN ra' = Some([Get(ra) EXCEPT !.error = Some(OrFallback(m)),
                                       !.errorOf = r.session])
       ELSE UNCHANGED ra
    /\ UNCHANGED <<venue, raceNumber, analyzing, effectPending, session, nreq,
                   crashed>>

\* the request rejected (transport failure, timeout, non-2xx): analyzeRace
\* rethrows; setError(err.message || '...'); finally setLoading(false)
AnalyzeRejected(r, m) ==
    /\ r \in inflight
    /\ inflight' = inflight \ {r}
    /\ IF Live(r)
       THEN LET s == [Get(ra) EXCEPT !.error = Some(OrFallback(m)),
                                     !.errorOf = r.session, !.loading = FALSE]
            IN  /\ ra' = Some(s)
                /\ crashed' = Throws(s)
       ELSE UNCHANGED <<ra, crashed>>
    /\ UNCHANGED <<venue, raceNumber, analyzing, effectPending, session, nreq>>

\* onBack={() => setAnalyzing(false)}, from the button of the view on screen;
\* App stops rendering RaceAnalysis and the instance is unmounted
OnBack ==
    /\ ~crashed /\ analyzing
    /\ App.back
    /\ analyzing' = FALSE
    /\ ra' = Absent
    /\ effectPending' = FALSE
    /\ UNCHANGED <<venue, raceNumber, session, inflight, nreq, crashed>>

\* every step of the application, the server answering from Bodies
Step(Bodies) ==
    \/ (\E v \in PickVenues : SetVenue(v)) /\ UNCHANGED swvars
    \/ (\E n \in PickRaces : SetRaceNumber(n)) /\ UNCHANGED swvars
    \/ HandleAnalyze /\ UNCHANGED swvars
    \/ Analyze /\ UNCHANGED swvars
    \/ (\E r \in inflight, data \in Bodies : AnalyzeResolved(r, data))
          /\ UNCHANGED swvars
    \/ (\E r \in inflight, m \in ErrorMessages : AnalyzeRejected(r, m))
          /\ UNCHANGED swvars
    \/ OnBack /\ UNCHANGED swvars

Next == Step(Responses)

Spec == Init /\ [][Next]_vars

\* The application with the server answering full-analysis bodies whose lists
\* vary: every list of at most MaxList tickets / predictions, one list at a time.
SeqsUpTo(S, n) == UNION {[1..k -> S] : k \in 0..n}

FullBody(recs, preds) ==
    [NullBody EXCEPT !.kind = "object", !.category = Some("stable"),
                     !.recommendations = recs, !.predictions = preds]

ProjectorResponses ==
    {FullBody(Some([tickets |-> t]), Absent) :
        t \in Opt(SeqsUpTo({T1, T2}, MaxList))}
    \cup {FullBody(Absent, Some([honmei |-> h, chuuane |-> Some(<<P3>>)])) :
        h \in Opt(SeqsUpTo({P1, P2}, MaxList))}
    \cup {FullBody(Absent, Some([honmei |-> Some(<<P3, P4>>), chuuane |-> c])) :
        c \in Opt(SeqsUpTo({P1, P2}, MaxList))}
    \cup {FullBody(Absent, Absent)}

NextProjector == Step(ProjectorResponses)

SpecProjector == Init /\ [][NextProjector]_vars

\* RaceAnalysis under a parent that also re-renders it with other props while
\* it is mounted: the effect's dependency list [venue, raceNumber] re-runs
\* analyze() in the same instance
PropsChange(v, n) ==
    /\ ~crashed /\ analyzing
    /\ <<v, n>> # <<venue, raceNumber>>
    /\ session < MaxSessions
    /\ venue' = v
    /\ raceNumber' = n
    /\ session' = session + 1
    /\ effectPending' = TRUE
    /\ nreq' = [s \in 1..(session + 1) |-> IF s = session + 1 THEN 0 ELSE nreq[s]]
    /\ UNCHANGED <<analyzing, ra, inflight, crashed>>

\* one body of each kind of view, and the null body
SampleResponses ==
    {NullBody} \cup
    {b \in ObjectBodies :
        /\ b.should_skip \in {Absent, Some(TRUE)}
        /\ Has(b.should_skip) => b.status = Absent
        /\ b.status # Some("ok")
        /\ b.skip_reasons = Absent /\ b.message = Absent
        /\ b.quality_score = Absent /\ b.category = Some("stable")
        /\ b.recommendations = Absent /\ b.predictions = Absent
        /\ b.data_quality = Absent}

NextComponent ==
    \/ Step(SampleResponses)
    \/ (\E v \in PickVenues, n \in PickRaces : PropsChange(v, n))
          /\ UNCHANGED swvars

SpecComponent == Init /\ [][NextComponent]_vars

\* The application under fair scheduling: React runs the effect of a mounted
\* instance, and every request settles (a response, an error status, or the
\* 60 s timeout of apiClient rejecting it).
Settle(Bodies) ==
    \/ \E r \in inflight, data \in Bodies : AnalyzeResolved(r, data)
    \/ \E r \in inflight, m \in ErrorMessages : AnalyzeRejected(r, m)

\* the sample bodies, and a full-analysis body of an inherited category
FairResponses ==
    SampleResponses
    \cup {[NullBody EXCEPT !.kind = "object", !.category = Some("__proto__")]}

NextFair == Step(FairResponses)

SpecFair ==
    /\ Init
    /\ [][NextFair]_vars
    /\ WF_vars(Analyze /\ UNCHANGED swvars)
    /\ WF_vars(Settle(FairResponses) /\ UNCHANGED swvars)

----------------------------------------------------------------------------
(* sw.js: the service worker *)

\* a request URL: the pathname split at its extension, and the query string
Url(n, e, q) == [name |-> n, ext |-> e, query |-> q]

\* const STATIC_ASSETS = ['./', './index.html', './manifest.json',
\*                        './icons/icon-192.png']
STATIC_ASSETS ==
    {Url("/", "", ""), Url("/index", "html", ""), Url("/manifest", "json", ""),
     Url("/icons/icon-192", "png", "")}

\* the URLs pages of the scope request
RequestUrls ==
    STATIC_ASSETS
    \cup {Url("/data/races", "json", ""), Url("/manifest", "json", "?v=2"),
          Url("/style", "css", ""), Url("/index", "html", "?source=pwa")}

\* url.pathname.endsWith('.json'): the pathname carries no query string
EndsWithJson(u) == u.ext = "json"

\* caches.match(evt.request): the entry with the same URL, query included
CacheMatch(u) == u \in cache

\* mutant: every request is served network-first
RespondNetworkFirst(u, netOk) ==
    IF netOk
    THEN [url |-> u, from |-> "network", net |-> "ok"]
    ELSE IF CacheMatch(u)
    THEN [url |-> u, from |-> "cache", net |-> "failed"]
    ELSE [url |-> u, from |-> "none", net |-> "failed"]

\* the fetch listener: what evt.respondWith is given for a request of u when
\* the network fetch would succeed (netOk) or fail.  from "none": the promise
\* resolved with undefined or rejected, and the page gets a network error
Respond(u, netOk) ==
    IF EndsWithJson(u)
    THEN \* fetch(evt.request).catch(() => caches.match(evt.request))
         IF netOk
         THEN [url |-> u, from |-> "network", net |-> "ok"]
         ELSE IF CacheMatch(u)
         THEN [url |-> u, from |-> "cache", net |-> "failed"]
         ELSE [url |-> u, from |-> "none", net |-> "failed"]
    ELSE \* caches.match(evt.request).then(cacheRes => cacheRes || fetch(...))
         IF CacheMatch(u)
         THEN [url |-> u, from |-> "cache", net |-> "untried"]
         ELSE IF netOk
         THEN [url |-> u, from |-> "network", net |-> "ok"]
         ELSE [url |-> u, from |-> "none", net |-> "failed"]

\* the install listener: cache.addAll(STATIC_ASSETS) stores all of them or, when
\* one cannot be fetched, none, and then the installation fails
Install(ok) ==
    /\ swState = "parsed"
    /\ IF ok
       THEN cache' = cache \cup STATIC_ASSETS /\ swState' = "active"
       ELSE cache' = cache /\ swState' = "redundant"
    /\ UNCHANGED fetchLog

\* mutant: a successful network response is put into the cache
FetchAndStore(u, netOk) ==
    /\ swState = "active"
    /\ Len(fetchLog) < MaxFetches
    /\ fetchLog' = Append(fetchLog, Respond(u, netOk))
    /\ cache' = IF Respond(u, netOk).from = "network" THEN cache \cup {u} ELSE cache
    /\ UNCHANGED swState

\* a fetch event of a page the installed worker controls
Fetch(u, netOk) ==
    /\ swState = "active"
    /\ Len(fetchLog) < MaxFetches
    /\ fetchLog' = Append(fetchLog, Respond(u, netOk))
    /\ UNCHANGED <<swState, cache>>

NextSW ==
    \/ (\E ok \in BOOLEAN : Install(ok)) /\ UNCHANGED appvars
    \/ (\E u \in RequestUrls, netOk \in BOOLEAN : Fetch(u, netOk))
          /\ UNCHANGED appvars

SpecSW == Init /\ [][NextSW]_vars

----------------------------------------------------------------------------
(* Properties *)

Variants == {"Loading", "Failed", "SkipRecommended", "DataInsufficient", "FullAnalysis"}
Terminal == Variants \ {"Loading"}

\* the session's request has been answered and the answer handled
Settled == analyzing /\ ~effectPending /\ inflight = {}

\* the held result is the body the current session's request resolved with
Succeeded == analyzing /\ ~effectPending /\ Get(ra).resultOf = session

\* the response's own words for "skip" and "data insufficient"
SaysSkip(b) == b.should_skip = Some(TRUE) \/ b.status = Some("skip")
SaysDataInsufficient(b) == b.status = Some("data_insufficient")

\* C1: once every request has been answered, what is rendered comes from the
\* latest session: the error shown, or else the result shown, was delivered by
\* the latest session's request, whatever the order the responses arrived in.
LateArrivalDiscarded ==
    (Settled /\ ~crashed) =>
        IF Truthy(Get(ra).error)
        THEN Get(ra).errorOf = session
        ELSE Get(ra).resultOf = session

\* C2: a non-null body delivered by a successful request that has should_skip
\* true or status "skip" is shown as SkipRecommended, whatever its other fields.
SkipPrecedence ==
    (Succeeded /\ Get(ra).result.kind = "object" /\ SaysSkip(Get(ra).result))
        => View = "SkipRecommended"

SkipPrecedenceWitness ==
    /\ Succeeded
    /\ Get(ra).result.should_skip = Some(TRUE)
    /\ Get(ra).result.status = Some("data_insufficient")
    /\ View = "SkipRecommended"

\* C3: a body with status "data_insufficient" and should_skip false or absent,
\* delivered by a successful request, is shown as DataInsufficient.
DataInsufficientSelected ==
    (/\ Succeeded
     /\ Get(ra).result.kind = "object"
     /\ SaysDataInsufficient(Get(ra).result)
     /\ Get(ra).result.should_skip \in {Absent, Some(FALSE)})
        => View = "DataInsufficient"

DataInsufficientWitness ==
    /\ Succeeded
    /\ Get(ra).result.status = Some("data_insufficient")
    /\ Get(ra).result.should_skip = Some(FALSE)
    /\ View = "DataInsufficient"

\* C4: within one session one of the five variants is on screen after every
\* step, and the screen changes only from Loading to a terminal variant.
OneWayPerSession ==
    [][(analyzing /\ analyzing' /\ session' = session) =>
          /\ View' \in Variants
          /\ (View' # View => (View = "Loading" /\ View' \in Terminal))]_vars

\* C5: a rejected analyze request leaves the Failed view showing the error's
\* message, or the fallback text when the error has no message.
FailureShowsFailed ==
    [][\A r \in inflight, m \in ErrorMessages :
          AnalyzeRejected(r, m) =>
              /\ View' = "Failed"
              /\ App'.text = Some(IF m \in {Absent, Some("")}
                                  THEN FallbackMessage ELSE Get(m))]_vars

FailureWitness ==
    /\ Settled /\ Get(ra).errorOf = session
    /\ View = "Failed"
    /\ App.text = Some(FallbackMessage)

\* C6: whenever no error is recorded and the held response is null the view is
\* Loading, also after a request that succeeded with a null body.
NullResponseShowsLoading ==
    (analyzing /\ ~Truthy(Get(ra).error) /\ Get(ra).result.kind = "null")
        => View = "Loading"

\* C7: a non-null body that says neither skip nor data_insufficient is shown as
\* FullAnalysis without a render error, each absent list shown as empty.
FullAnalysisTolerant ==
    (/\ Succeeded
     /\ Get(ra).result.kind = "object"
     /\ ~SaysSkip(Get(ra).result)
     /\ ~SaysDataInsufficient(Get(ra).result))
        => LET b == Get(ra).result IN
           /\ ~crashed
           /\ View = "FullAnalysis"
           /\ (b.recommendations \in {Absent, Some([tickets |-> Absent])}
                  => App.tickets = <<>>)
           /\ (b.predictions = Absent => App.honmei = <<>> /\ App.chuuane = <<>>)
           /\ (Has(b.predictions) /\ Get(b.predictions).honmei = Absent
                  => App.honmei = <<>>)
           /\ (Has(b.predictions) /\ Get(b.predictions).chuuane = Absent
                  => App.chuuane = <<>>)
           /\ (b.data_quality = Absent => App.checks = <<>>)
           /\ (Has(b.data_quality) /\ Get(b.data_quality).checks = Absent
                  => App.checks = <<>>)

FullAnalysisWitness ==
    /\ Succeeded
    /\ Get(ra).result.kind = "object"
    /\ Get(ra).result.recommendations = Absent
    /\ Get(ra).result.predictions = Absent
    /\ Get(ra).result.data_quality = Absent
    /\ View = "FullAnalysis"

\* C8: every session has sent exactly one analyze request once its effect has
\* run, none before, and never has two requests pending.
OneRequestPerSession ==
    /\ \A s \in DOMAIN nreq :
          nreq[s] = IF s = session /\ effectPending THEN 0 ELSE 1
    /\ Cardinality(inflight) <= 1
    /\ \A r \in inflight : r.session = session

OneRequestWitness ==
    /\ session = 2 /\ Settled
    /\ Truthy(Get(ra).error)
    /\ nreq[1] = 1 /\ nreq[2] = 1

\* C9: back discards the session's state; a session starts in Loading with no
\* result and no error, and what it holds never comes from an earlier session.
BackDiscardsSession ==
    /\ ~analyzing => ra = Absent
    /\ (analyzing /\ effectPending) =>
          /\ View = "Loading"
          /\ Get(ra).result = NullBody
          /\ Get(ra).error = Absent
    /\ analyzing =>
          /\ Get(ra).resultOf \in {0, session}
          /\ Get(ra).errorOf \in {0, session}
          /\ Get(ra).resultOf = 0 => Get(ra).result = NullBody
          /\ Get(ra).errorOf = 0 => Get(ra).error = Absent

BackDiscardsWitness ==
    /\ session = 2 /\ analyzing /\ effectPending
    /\ View = "Loading"

\* C10: every terminal view offers back, and every reachable state is the
\* picker, a view offering back, or Loading with the request still to answer.
AlwaysAWayBack ==
    /\ View \in Terminal => App.back
    /\ \/ View = "Picker"
       \/ App.back
       \/ (View = "Loading" /\ (effectPending \/ inflight # {}))

\* C11: whenever the mounted screen holds an error (error is not null) the
\* Failed view is on screen, whatever the loading flag and the held result are.
ErrorShowsFailed ==
    (analyzing /\ Has(Get(ra).error)) => View = "Failed"

ErrorShowsFailedWitness ==
    /\ analyzing
    /\ Has(Get(ra).error)
    /\ Get(ra).errorOf = session
    /\ View = "Failed"

\* C12: the DataInsufficient view shows the response's message, or some default
\* text when the message is absent, and the response's quality_score as a
\* percentage, or 0 when quality_score is absent.
DataInsufficientDefaults ==
    (Succeeded /\ View = "DataInsufficient") =>
        LET b == Get(ra).result IN
        /\ Has(App.text)
        /\ Has(b.message) => App.text = b.message
        /\ App.score = [nan |-> FALSE,
                        pct |-> IF Has(b.quality_score)
                                THEN Get(b.quality_score) ELSE 0]

\* the first min(3, n) elements of an optional list, in order; none when absent
IsTop3Of(shown, src) ==
    LET n == IF Has(src) THEN Len(Get(src)) ELSE 0 IN
    /\ Len(shown) = (IF n < 3 THEN n ELSE 3)
    /\ \A i \in 1..Len(shown) : shown[i] = Get(src)[i]

\* the honmei / chuuane lists of a body (absent when predictions is absent)
HonmeiOf(b) == IF Has(b.predictions) THEN Get(b.predictions).honmei ELSE Absent
ChuuaneOf(b) == IF Has(b.predictions) THEN Get(b.predictions).chuuane ELSE Absent
TicketsOf(b) ==
    IF Has(b.recommendations) THEN Get(b.recommendations).tickets ELSE Absent

\* C13: in the FullAnalysis view the honmei rows are the first min(3, n) elements
\* of predictions.honmei in their order, likewise chuuane; none when absent.
Top3Shown ==
    (Succeeded /\ View = "FullAnalysis") =>
        /\ IsTop3Of(App.honmei, HonmeiOf(Get(ra).result))
        /\ IsTop3Of(App.chuuane, ChuuaneOf(Get(ra).result))

Top3ShownWitness ==
    /\ Succeeded /\ View = "FullAnalysis"
    /\ HonmeiOf(Get(ra).result) = Some(<<P2, P1, P1, P2>>)
    /\ App.honmei = <<P2, P1, P1>>

\* C14: the ticket rows of the FullAnalysis view are the elements of
\* recommendations.tickets, one row per element, in the same order.
TicketsPassThrough ==
    (Succeeded /\ View = "FullAnalysis" /\ Has(TicketsOf(Get(ra).result))) =>
        LET t == Get(TicketsOf(Get(ra).result)) IN
        /\ Len(App.tickets) = Len(t)
        /\ \A i \in 1..Len(t) : App.tickets[i] = t[i]

TicketsPassThroughWitness ==
    /\ Succeeded /\ View = "FullAnalysis"
    /\ TicketsOf(Get(ra).result) = Some(<<T2, T1, T2, T2>>)
    /\ App.tickets = <<T2, T1, T2, T2>>

\* C15: a full-analysis body with category stable, mixed or upset is shown with
\* the green, yellow or red icon and styling; with any other category, or none,
\* the FullAnalysis view is still shown, without icon and styling and without
\* a render error.
CategoryPresentation ==
    (/\ Succeeded
     /\ Get(ra).result.kind = "object"
     /\ ~SaysSkip(Get(ra).result)
     /\ ~SaysDataInsufficient(Get(ra).result))
        => LET c == Get(ra).result.category IN
           /\ ~crashed
           /\ View = "FullAnalysis"
           /\ c = Some("stable") =>
                 /\ App.icon = Some("green circle")
                 /\ App.style = Some("bg-green-100 text-green-800")
           /\ c = Some("mixed") =>
                 /\ App.icon = Some("yellow circle")
                 /\ App.style = Some("bg-yellow-100 text-yellow-800")
           /\ c = Some("upset") =>
                 /\ App.icon = Some("red circle")
                 /\ App.style = Some("bg-red-100 text-red-800")
           /\ c \notin {Some("stable"), Some("mixed"), Some("upset")} =>
                 /\ App.icon = Absent
                 /\ App.style = Absent

\* C16: every analyze request carries the venue and the race number selected
\* when analysis was triggered, a venue of VENUES and a race number in 1..12.
RequestCarriesSelection ==
    \A r \in inflight :
        /\ r.venue = venue /\ r.race_number = raceNumber
        /\ r.venue \in VENUES /\ r.race_number \in RaceNumbers

RequestCarriesSelectionWitness ==
    \E r \in inflight :
        /\ r.venue = 1 /\ r.race_number = 1
        /\ r.session = 2

\* C17: a request whose path ends in .json goes to the network first and is
\* answered with the network response when that fetch succeeds; when it fails
\* it is answered with the cached copy.
JsonNetworkFirst ==
    \A i \in 1..Len(fetchLog) :
        EndsWithJson(fetchLog[i].url) =>
            /\ fetchLog[i].net # "untried"
            /\ fetchLog[i].net = "ok" => fetchLog[i].from = "network"
            /\ fetchLog[i].net = "failed" => fetchLog[i].from = "cache"

\* C18 as stated: every precached asset is answered from the cache without
\* going to the network.
PrecachedCacheFirst ==
    \A i \in 1..Len(fetchLog) :
        fetchLog[i].url \in STATIC_ASSETS =>
            /\ fetchLog[i].from = "cache"
            /\ fetchLog[i].net = "untried"

\* C18, amended: every precached asset whose path does not end in .json is
\* answered from the cache without going to the network; a request whose path
\* does not end in .json goes to the network only on a cache miss; and the
\* precached ./manifest.json goes to the network first.
PrecachedNonJsonCacheFirst ==
    \A i \in 1..Len(fetchLog) :
        LET e == fetchLog[i] IN
        /\ (e.url \in STATIC_ASSETS /\ e.url.ext # "json") =>
              (e.from = "cache" /\ e.net = "untried")
        /\ (e.url.ext # "json" /\ e.net # "untried") => e.url \notin cache
        /\ e.url = Url("/manifest", "json", "") => e.net # "untried"

PrecachedWitness ==
    /\ Len(fetchLog) = 2
    /\ fetchLog[1].url = Url("/index", "html", "") /\ fetchLog[1].from = "cache"
    /\ fetchLog[2].url = Url("/manifest", "json", "") /\ fetchLog[2].from = "network"

\* C19: under fair scheduling, with every request settling, a session that
\* shows Loading eventually shows a terminal view (Failed, SkipRecommended,
\* DataInsufficient or FullAnalysis).
LoadingEnds == (View = "Loading") ~> (View \in Terminal)

\* C20: in the application at most one analyze request is pending; a request
\* is pending only under the Loading view; the Loading view offers no back
\* action and the pickers are not rendered with it; and no step taken from
\* the Loading view changes the selected venue, the race number or the
\* session.
PendingIsolated ==
    /\ [](Cardinality(inflight) <= 1)
    /\ [](inflight # {} => View = "Loading")
    /\ [](View = "Loading" => ~App.back /\ ~PickerShown)
    /\ [][View = "Loading" =>
            venue' = venue /\ raceNumber' = raceNumber /\ session' = session]_vars

PendingIsolatedWitness ==
    /\ session > 1
    /\ View = "Loading"
    /\ Cardinality(inflight) = 1

\* C21: the fetch handler never changes the cache: once installed the
\* cache holds exactly the precache list whatever fetches followed; a URL
\* answered from the network is not answered from the cache afterwards unless
\* it was precached; and a .json request that was not precached gets no
\* response when the network fails.
FetchLeavesCache ==
    /\ swState = "active" => cache = STATIC_ASSETS
    /\ swState # "active" => cache = {}
    /\ \A i \in 1..Len(fetchLog) :
          LET e == fetchLog[i] IN
          /\ (EndsWithJson(e.url) /\ e.url \notin STATIC_ASSETS /\ e.net = "failed")
                => e.from = "none"
          /\ \A j \in (i + 1)..Len(fetchLog) :
                (e.from = "network" /\ e.url \notin STATIC_ASSETS
                    /\ fetchLog[j].url = e.url) => fetchLog[j].from # "cache"

FetchLeavesCacheWitness ==
    /\ Len(fetchLog) >= 2
    /\ fetchLog[1].url = Url("/data/races", "json", "")
    /\ fetchLog[1].from = "network"
    /\ fetchLog[2].url = Url("/data/races", "json", "")
    /\ fetchLog[2].net = "failed" /\ fetchLog[2].from = "none"
    /\ cache = STATIC_ASSETS

====
